---- MODULE Spec2Model ----
(***************************************************************************)
(* The workflow orchestration engine of Medical_Deep_Research: the graph   *)
(* nodes of src/src/graph/nodes.py driven over a shared State, and the     *)
(* streaming driver run_agent_workflow_async of src/src/workflow.py that   *)
(* turns the state snapshots into an event stream.                         *)
(***************************************************************************)
EXTENDS Integers, Sequences, FiniteSets, TLC

VARIABLES
    node,                 \* the graph node that runs next
    state,                \* the State value threaded through the nodes
    steps_run,            \* node executions so far (the graph's step count)
    pc,                   \* "graph" | "observe" | "closed": whose turn it is
    raised,               \* the exception that ended graph execution, "" if none
    llm_calls,            \* model / agent invocations made by the nodes
    max_plan_iterations,  \* config["configurable"]["max_plan_iterations"]
    last_message_cnt,     \* driver local
    current_plan_yielded, \* driver local
    yielded_steps,        \* driver local
    last_state,           \* driver local: the last snapshot seen
    tool_events_queue,    \* driver local: telemetry put by tool calls, not yet yielded
    events,               \* the events yielded to the caller, in order
    executed,             \* history: position, title and result of each step execution
    on_script,            \* history: the run followed the two-step scenario
    mcp_settings,         \* config["configurable"]["mcp_settings"]
    agent_recursion_limit, \* the environment variable AGENT_RECURSION_LIMIT
    delegate,             \* node local: the agent the running node built, and its config
    call,                 \* a call of a function taken on its own: its arguments and
                          \* what the outside world answers during it
    func_calls,           \* history: the calls the wrapper made of the wrapped tool
    result,               \* what the call returned or raised
    _tool_event_callback, \* decorators.py's global: the run whose handler is installed
    runs                  \* the runs of one process taken together: each one's
                          \* position, tool_events_queue, yielded events and tool calls

vars ==
    <<node, state, steps_run, pc, raised, llm_calls, max_plan_iterations,
      last_message_cnt, current_plan_yielded, yielded_steps, last_state,
      tool_events_queue, events, executed, on_script,
      mcp_settings, agent_recursion_limit, delegate,
      call, func_calls, result, _tool_event_callback, runs>>

\* The variables of a function call taken on its own: no step of a workflow
\* run touches them.
call_vars ==
    <<call, func_calls, result>>

\* The variables of several runs taken together: a run followed on its own
\* and a function call taken on its own leave them alone.
run_vars ==
    <<_tool_event_callback, runs>>

NoResult ==
    [type |-> "none"]

-----------------------------------------------------------------------------
(* Bounds of the model *)

MaxPlanSteps ==
    2

MaxPlanIterations ==
    2

MaxEnvLen ==
    2

(* Program constants *)

RecursionLimit ==
    15

-----------------------------------------------------------------------------
(* Values *)

None ==
    "None"

\* Python truthiness of an Optional[str]: None and "" are falsy.
Truthy(x) ==
    x # None /\ x # ""

StepType ==
    {"research", "processing"}

Titles ==
    {"step 1", "step 2", "step 3"}

\* Results a model output may already carry in a step's execution_res field.
PrefilledRes ==
    {None, "r0"}

Step ==
    [title : Titles, step_type : StepType, execution_res : PrefilledRes]

NewStep(title, step_type, execution_res) ==
    [title |-> title, step_type |-> step_type, execution_res |-> execution_res]

\* The step lists the planner's model proposes: none, one step of either type,
\* the two types in both orders, two steps under one title, a step that comes
\* with a result already filled in, and a three-step list.
ProposedStepLists ==
    {<<>>,
     <<NewStep("step 1", "research", None)>>,
     <<NewStep("step 1", "processing", None)>>,
     <<NewStep("step 1", "research", None), NewStep("step 2", "processing", None)>>,
     <<NewStep("step 1", "processing", None), NewStep("step 2", "research", None)>>,
     <<NewStep("step 1", "research", None), NewStep("step 1", "processing", None)>>,
     <<NewStep("step 1", "research", "r0"), NewStep("step 2", "processing", None)>>,
     <<NewStep("step 1", "research", None), NewStep("step 2", "research", "r0")>>,
     <<NewStep("step 1", "research", None), NewStep("step 2", "processing", None),
       NewStep("step 3", "research", None)>>}

StepSeqs ==
    {steps \in ProposedStepLists : Len(steps) <= MaxPlanSteps}

NoPlan ==
    [kind |-> "None"]

\* What the planner's model can return, by what json.loads and Plan.model_validate
\* make of it: text that is no JSON, JSON that is no object, and a JSON object
\* with has_enough_context true / false / absent whose other fields do or do not
\* satisfy the Plan schema.
ModelOutputs ==
    {[json |-> "invalid", has_enough_context |-> "missing", schema_ok |-> FALSE, steps |-> <<>>],
     [json |-> "nonobject", has_enough_context |-> "missing", schema_ok |-> FALSE, steps |-> <<>>]}
    \cup [json : {"object"}, has_enough_context : {"true", "false"},
          schema_ok : {TRUE}, steps : StepSeqs]
    \cup [json : {"object"}, has_enough_context : {"true", "false", "missing"},
          schema_ok : {FALSE}, steps : {<<>>}]

\* The non-empty and empty contents an agent delegate or the reporter's model returns.
AgentReplies ==
    {"", "r1"}

ReporterReplies ==
    {"", "report"}

\* What input() returns in human_feedback_node, by the branch it selects.
FeedbackInputs ==
    {"[ACCEPTED]", "[EDIT_PLAN] x", ""}

\* How many tool calls an agent delegate makes while it executes a step.
ToolCalls ==
    {0, 1}

NoUpdate ==
    [k \in {} |-> TRUE]

\* A node's result: the Command it returns, or the exception it raises.
Command(goto, update) ==
    [goto |-> goto, update |-> update, exc |-> ""]

Raises(e) ==
    [goto |-> "", update |-> NoUpdate, exc |-> e]

-----------------------------------------------------------------------------
(* Messages *)

AIMessage(content, name) ==
    [role |-> "ai", content |-> content, name |-> name]

HumanMessage(content, name) ==
    [role |-> "human", content |-> content, name |-> name]

UserMessage ==
    [role |-> "user", content |-> "query"]

-----------------------------------------------------------------------------
(* Parsing and validating a model output *)

\* json.loads(repair_json_output(text)) raises JSONDecodeError exactly for text
\* the repair pass cannot turn into JSON.
JsonDecodeFails(out) ==
    out.json = "invalid"

\* Plan.model_validate(obj) succeeds for an object that has a boolean
\* has_enough_context and whose title, thought and steps satisfy the schema.
ValidPlan(out) ==
    out.json = "object" /\ out.has_enough_context # "missing" /\ out.schema_ok

\* The Plan that Plan.model_validate builds: a step keeps the execution_res the
\* object gives it (an optional field, default None).
ModelValidate(out) ==
    [kind |-> "Plan",
     has_enough_context |-> (out.has_enough_context = "true"),
     steps |-> out.steps]

RawPlan(out) ==
    [kind |-> "str", out |-> out]

-----------------------------------------------------------------------------
(* The nodes, as functions from the State and what the outside world returns *)

\* A variant of coordinator_node whose update holds its message only.
coordinator_node_replacing(s, has_tool_call) ==
    IF has_tool_call
    THEN Command("planner", NoUpdate)
    ELSE Command("__end__", [messages |-> <<AIMessage("reply", "coordinator")>>])

coordinator_node(s, has_tool_call) ==
    IF has_tool_call
    THEN Command("planner", NoUpdate)
    ELSE Command("__end__",
                 [messages |-> Append(s.messages, AIMessage("reply", "coordinator"))])

planner_node_no_bound(s, max_iter, full_response) ==
    IF JsonDecodeFails(full_response)
    THEN IF s.plan_iterations > 0
         THEN Command("reporter", NoUpdate)
         ELSE Command("__end__", NoUpdate)
    ELSE IF full_response.json # "object"
    THEN Raises("AttributeError")
    ELSE IF full_response.has_enough_context = "true"
    THEN IF ValidPlan(full_response)
         THEN Command("reporter",
                      [messages |-> <<AIMessage("plan_json", "planner")>>,
                       current_plan |-> ModelValidate(full_response)])
         ELSE Raises("ValidationError")
    ELSE Command("feedback_node",
                 [messages |-> <<AIMessage("plan_json", "planner")>>,
                  current_plan |-> RawPlan(full_response)])

planner_node_reports_on_invalid(s, max_iter, full_response) ==
    IF s.plan_iterations >= max_iter
    THEN Command("reporter", NoUpdate)
    ELSE IF JsonDecodeFails(full_response)
    THEN Command("reporter", NoUpdate)
    ELSE planner_node_no_bound(s, max_iter, full_response)

planner_node(s, max_iter, full_response) ==
    IF s.plan_iterations >= max_iter
    THEN Command("reporter", NoUpdate)
    ELSE IF JsonDecodeFails(full_response)
    THEN IF s.plan_iterations > 0
         THEN Command("reporter", NoUpdate)
         ELSE Command("__end__", NoUpdate)
    ELSE IF full_response.json # "object"
    THEN Raises("AttributeError")
    ELSE IF full_response.has_enough_context = "true"
    THEN IF ValidPlan(full_response)
         THEN Command("reporter",
                      [messages |-> <<AIMessage("plan_json", "planner")>>,
                       current_plan |-> ModelValidate(full_response)])
         ELSE Raises("ValidationError")
    ELSE Command("feedback_node",
                 [messages |-> <<AIMessage("plan_json", "planner")>>,
                  current_plan |-> RawPlan(full_response)])

\* Whether planner_node reaches its model call.
PlannerInvokesModel(s, max_iter) ==
    s.plan_iterations < max_iter

IsEditPlan(feedback) ==
    feedback = "[EDIT_PLAN] x"

\* Whether human_feedback_node takes the [EDIT_PLAN] branch.
AsksForEdit(s, feedback) ==
    s.human_feedback /\ IsEditPlan(feedback)

\* A variant of human_feedback_node that accepts a plan without counting it.
human_feedback_node_keeps_count(s, feedback) ==
    IF AsksForEdit(s, feedback)
    THEN Command("plan_modifier", [messages |-> <<HumanMessage(feedback, "feedback")>>])
    ELSE IF s.current_plan.kind # "str"
    THEN Raises("TypeError")
    ELSE LET out == s.current_plan.out
             plan_iterations == s.plan_iterations
         IN  IF JsonDecodeFails(out)
             THEN IF plan_iterations > 0
                  THEN Command("reporter", NoUpdate)
                  ELSE Command("__end__", NoUpdate)
             ELSE IF out.json # "object"
             THEN Raises("TypeError")
             ELSE IF out.has_enough_context = "missing"
             THEN Raises("KeyError")
             ELSE IF ~ValidPlan(out)
             THEN Raises("ValidationError")
             ELSE Command(IF out.has_enough_context = "true"
                          THEN "reporter" ELSE "research_team",
                          [current_plan |-> ModelValidate(out),
                           plan_iterations |-> plan_iterations])

human_feedback_node(s, feedback) ==
    IF AsksForEdit(s, feedback)
    THEN Command("plan_modifier", [messages |-> <<HumanMessage(feedback, "feedback")>>])
    ELSE IF s.current_plan.kind # "str"
    THEN Raises("TypeError")
    ELSE LET out == s.current_plan.out
             plan_iterations == s.plan_iterations + 1
         IN  IF JsonDecodeFails(out)
             THEN IF plan_iterations > 0
                  THEN Command("reporter", NoUpdate)
                  ELSE Command("__end__", NoUpdate)
             ELSE IF out.json # "object"
             THEN Raises("TypeError")
             ELSE IF out.has_enough_context = "missing"
             THEN Raises("KeyError")
             ELSE IF ~ValidPlan(out)
             THEN Raises("ValidationError")
             ELSE Command(IF out.has_enough_context = "true"
                          THEN "reporter" ELSE "research_team",
                          [current_plan |-> ModelValidate(out),
                           plan_iterations |-> plan_iterations])

HasFeedbackMessage(s) ==
    \E i \in 1..Len(s.messages) :
        /\ "name" \in DOMAIN s.messages[i]
        /\ s.messages[i].name = "feedback"
        /\ s.messages[i].content # ""

plan_modifier_node(s, full_response) ==
    IF ~HasFeedbackMessage(s)
    THEN Command("feedback_node", NoUpdate)
    ELSE IF JsonDecodeFails(full_response)
    THEN Command("feedback_node", NoUpdate)
    ELSE IF ~ValidPlan(full_response)
    THEN Raises("ValidationError")
    ELSE Command("feedback_node",
                 [messages |-> <<AIMessage("plan_json", "plan_modifier")>>,
                  current_plan |-> ModelValidate(full_response)])

-----------------------------------------------------------------------------
(* Step selection and routing *)

\* The positions of the steps whose execution_res is falsy (None or "").
PendingSteps(plan) ==
    {i \in 1..Len(plan.steps) : ~Truthy(plan.steps[i].execution_res)}

Min(S) ==
    CHOOSE x \in S : \A y \in S : x <= y

FirstStepAlways(plan) ==
    IF plan.steps = <<>> THEN 0 ELSE 1

\* "Find the first unexecuted step": its position, 0 when there is none.
FirstPending(plan) ==
    IF PendingSteps(plan) = {} THEN 0 ELSE Min(PendingSteps(plan))

research_team_by_position(s) ==
    LET current_plan == s.current_plan
    IN  IF current_plan.kind = "None"
        THEN Command("planner", NoUpdate)
        ELSE IF current_plan.kind = "str"
        THEN Raises("AttributeError")
        ELSE IF current_plan.steps = <<>>
        THEN Command("planner", NoUpdate)
        ELSE IF PendingSteps(current_plan) = {}
        THEN Command("planner", NoUpdate)
        ELSE LET step == current_plan.steps[1]
             IN  IF step.step_type = "research"
                 THEN Command("researcher", NoUpdate)
                 ELSE Command("coder", NoUpdate)

research_team_node(s) ==
    LET current_plan == s.current_plan
    IN  IF current_plan.kind = "None"
        THEN Command("planner", NoUpdate)
        ELSE IF current_plan.kind = "str"
        THEN Raises("AttributeError")
        ELSE IF current_plan.steps = <<>>
        THEN Command("planner", NoUpdate)
        ELSE IF PendingSteps(current_plan) = {}
        THEN Command("planner", NoUpdate)
        ELSE LET step == current_plan.steps[FirstPending(current_plan)]
             IN  IF step.step_type = "research"
                 THEN Command("researcher", NoUpdate)
                 ELSE IF step.step_type = "processing"
                 THEN Command("coder", NoUpdate)
                 ELSE Command("planner", NoUpdate)

\* The plan object after `current_step.execution_res = response_content`.
SetExecutionRes(plan, i, response_content) ==
    [plan EXCEPT !.steps[i].execution_res = response_content]

\* A variant of _execute_agent_step whose update leaves the observations alone.
execute_agent_step_keeping_observations(s, agent_name, response_content) ==
    LET current_plan == s.current_plan
        i == FirstPending(current_plan)
    IN  IF i = 0
        THEN [cmd |-> Command("research_team", NoUpdate), plan |-> current_plan]
        ELSE [cmd |-> Command("research_team",
                              [messages |-> <<HumanMessage(response_content, agent_name)>>]),
              plan |-> SetExecutionRes(current_plan, i, response_content)]

\* _execute_agent_step for an agent that returns response_content. The result
\* carries, next to the Command, the plan object as the in-place assignment
\* leaves it.
execute_agent_step(s, agent_name, response_content) ==
    LET current_plan == s.current_plan
        i == FirstPending(current_plan)
    IN  IF i = 0
        THEN [cmd |-> Command("research_team", NoUpdate), plan |-> current_plan]
        ELSE [cmd |-> Command("research_team",
                              [messages |-> <<HumanMessage(response_content, agent_name)>>,
                               observations |-> Append(s.observations, response_content)]),
              plan |-> SetExecutionRes(current_plan, i, response_content)]

reporter_node_goes_on(s, response_content) ==
    Command("research_team", [final_report |-> response_content])

reporter_node(s, response_content) ==
    Command("__end__", [final_report |-> response_content])

-----------------------------------------------------------------------------
(* The graph executor *)

\* A node's update applied to the State: a key the update names takes the
\* update's value (State declares no reducer for any key), the others stay.
ApplyUpdate(s, update) ==
    [k \in DOMAIN s |-> IF k \in DOMAIN update THEN update[k] ELSE s[k]]

initial_state(human_feedback) ==
    [messages |-> <<UserMessage>>,
     human_feedback |-> human_feedback,
     plan_iterations |-> 0,
     current_plan |-> NoPlan,
     observations |-> <<>>,
     final_report |-> ""]

\* Exceptions a model, agent or human-input call can end with. An agent delegate
\* has a recursion limit of its own, whose error carries the same message as the
\* outer graph's.
LLMErrors ==
    {"LLMError"}

AgentErrors ==
    {"LLMError", "GraphRecursionError"}

\* The same test without lower(): the graph's message reads "Recursion limit of
\* 15 reached ...", so a case-sensitive search for "recursion limit" finds nothing.
IsRecursionLimitErrorCaseSensitive(e) ==
    FALSE

\* `"recursion limit" in str(e).lower()`
IsRecursionLimitError(e) ==
    e = "GraphRecursionError"

-----------------------------------------------------------------------------
(* Setting up the agent delegate: the providers of a role, its tools, and the *)
(* recursion limit of its own                                                 *)

Roles ==
    {"researcher", "coder"}

ServerNames ==
    {"s1", "s2"}

\* The names a server's configuration can list under enabled_tools.
ProviderToolNames ==
    {"t1", "t2"}

\* A server's configuration enables none, one or both of them.
ServerConfig ==
    [enabled_tools : {{}, {"t1"}, {"t1", "t2"}},
     add_to_agents : SUBSET Roles,
     available : BOOLEAN]

\* mcp_settings names no server (mcp_config.json is absent or lists none), or
\* it is a dict with the configuration of each server.
NoSettings ==
    [kind |-> "None"]

McpSettings ==
    {NoSettings} \cup {[kind |-> "dict", servers |-> f] : f \in [ServerNames -> ServerConfig]}

Tool(name, provider) ==
    [name |-> name, provider |-> provider]

\* The tools a server exposes, whatever its configuration enables: s1 and s2
\* both expose a tool named t2, and s2 one that no configuration names.
ExposedNames(server_name) ==
    IF server_name = "s1" THEN {"t1", "t2"} ELSE {"t2", "t3"}

\* research_tools of researcher_node, and the list coder_node passes.
DefaultTools(agent_type) ==
    IF agent_type = "researcher"
    THEN {Tool("openai_search_tool", "builtin"), Tool("litesense_tool", "builtin"),
          Tool("crawl_tool", "builtin")}
    ELSE {Tool("python_repl_tool", "builtin")}

SelectedServersByRole(settings, agent_type) ==
    IF settings.kind = "None"
    THEN {}
    ELSE {server_name \in DOMAIN settings.servers :
             agent_type \in settings.servers[server_name].add_to_agents}

\* The keys of mcp_servers after the loop over mcp_settings["servers"].
SelectedServers(settings, agent_type) ==
    IF settings.kind = "None"
    THEN {}
    ELSE {server_name \in DOMAIN settings.servers :
             /\ settings.servers[server_name].enabled_tools # {}
             /\ agent_type \in settings.servers[server_name].add_to_agents}

\* The keys of enabled_tools after that loop.
EnabledTools(settings, agent_type) ==
    UNION {settings.servers[server_name].enabled_tools :
              server_name \in SelectedServers(settings, agent_type)}

\* client.get_tools(): every tool of every server the client was built with.
\* It raises when one of them cannot be reached.
GetToolsFails(settings, mcp_servers) ==
    \E server_name \in mcp_servers : ~settings.servers[server_name].available

GetTools(settings, mcp_servers) ==
    UNION {{Tool(name, server_name) : name \in ExposedNames(server_name)} :
              server_name \in mcp_servers}

\* loaded_tools: a copy of default_tools, and each fetched tool whose name is a
\* key of enabled_tools.
LoadedTools(settings, agent_type, default_tools) ==
    IF SelectedServers(settings, agent_type) # {}
    THEN default_tools
         \cup {tool \in GetTools(settings, SelectedServers(settings, agent_type)) :
                  tool.name \in EnabledTools(settings, agent_type)}
    ELSE default_tools

NoAgent ==
    [kind |-> "None"]

\* The agent create_agent builds, with what the node holds next to it: the
\* servers of the client, the default list as the setup leaves it, and the
\* recursion limit given to ainvoke (0 as long as ainvoke is not reached).
create_agent(agent_type, mcp_servers, tools, default_tools, recursion_limit) ==
    [kind |-> "agent", agent_type |-> agent_type, mcp_servers |-> mcp_servers,
     tools |-> tools, default_tools |-> default_tools,
     recursion_limit |-> recursion_limit]

\* The environment variable: unset, or set to a string (of the characters that
\* decide how int() takes it: digits, a sign, and one that is neither).
EnvChars ==
    {"0", "2", "-", "x"}

Unset ==
    [set |-> FALSE, value |-> <<>>]

EnvValues ==
    {Unset} \cup {[set |-> TRUE, value |-> v] :
                     v \in UNION {[1..n -> EnvChars] : n \in 0..MaxEnvLen}}

IsDigit(c) ==
    c \in {"0", "2"}

DigitValue(c) ==
    IF c = "0" THEN 0 ELSE 2

\* int(text): an optional sign and at least one digit; ValueError otherwise.
Unsigned(text) ==
    IF text # <<>> /\ Head(text) = "-" THEN Tail(text) ELSE text

IntRaisesValueError(text) ==
    \/ Unsigned(text) = <<>>
    \/ \E i \in 1..Len(Unsigned(text)) : ~IsDigit(Unsigned(text)[i])

RECURSIVE DigitsToInt(_)
DigitsToInt(digits) ==
    IF digits = <<>>
    THEN 0
    ELSE 10 * DigitsToInt(SubSeq(digits, 1, Len(digits) - 1))
         + DigitValue(digits[Len(digits)])

int(text) ==
    IF text # <<>> /\ Head(text) = "-"
    THEN 0 - DigitsToInt(Tail(text))
    ELSE DigitsToInt(text)

default_recursion_limit ==
    20

recursion_limit_unchecked(env) ==
    IF ~env.set
    THEN default_recursion_limit
    ELSE IF IntRaisesValueError(env.value)
    THEN default_recursion_limit
    ELSE int(env.value)

\* Lines 372-383: the limit read from the environment, the default when the
\* variable is unset, is no integer, or is not positive.
recursion_limit(env) ==
    IF ~env.set
    THEN default_recursion_limit
    ELSE IF IntRaisesValueError(env.value)
    THEN default_recursion_limit
    ELSE IF int(env.value) <= 0
    THEN default_recursion_limit
    ELSE int(env.value)

-----------------------------------------------------------------------------
(* Tool telemetry: log_io_with_events puts a tool_start and a tool_complete *)
(* event around each tool call, through the callback the driver installed.  *)

\* One event of a tool call. `call` stands for what tells the events of one
\* call from those of another: the parameters the tool_start event carries and
\* the result the tool_complete event carries.
ToolEvent(type, call_number) ==
    [type |-> type, tool_name |-> "tool", call |-> call_number]

IsTelemetry(e) ==
    e.type \in {"tool_start", "tool_complete"}

\* A variant of ToolCallEvents that reports the completion of a call before
\* its start.
RECURSIVE ToolCallEventsCompleteFirst(_, _)
ToolCallEventsCompleteFirst(n, first) ==
    IF n = 0
    THEN <<>>
    ELSE <<ToolEvent("tool_complete", first), ToolEvent("tool_start", first)>>
         \o ToolCallEventsCompleteFirst(n - 1, first + 1)

\* The events of n tool calls made one after the other, the first of them
\* being call number `first` of the run.
RECURSIVE ToolCallEvents(_, _)
ToolCallEvents(n, first) ==
    IF n = 0
    THEN <<>>
    ELSE <<ToolEvent("tool_start", first), ToolEvent("tool_complete", first)>>
         \o ToolCallEvents(n - 1, first + 1)

-----------------------------------------------------------------------------
(* The streaming driver *)

MessageEvent(serialized) ==
    [type |-> "message", message |-> serialized]

PlanEvent(serialized_plan) ==
    [type |-> "plan", plan |-> serialized_plan]

ExecutionResEvent(step_title, step_res) ==
    [type |-> "execution_res", step_title |-> step_title, content |-> step_res]

FinalReportEvent(content) ==
    [type |-> "final_report", content |-> content]

ErrorEvent(content) ==
    [type |-> "error", content |-> content]

serialize_message(message) ==
    IF message.role \in {"ai", "human"}
    THEN [role |-> message.role, content |-> message.content, name |-> message.name]
    ELSE message

InvalidPlanFormat ==
    [error |-> "Invalid plan format"]

serialize_plan_any(plan) ==
    IF plan.kind = "Plan"
    THEN [has_enough_context |-> plan.has_enough_context, steps |-> plan.steps]
    ELSE [raw |-> plan.kind]

serialize_plan(plan) ==
    IF plan.kind = "Plan"
    THEN [has_enough_context |-> plan.has_enough_context, steps |-> plan.steps]
    ELSE InvalidPlanFormat

RECURSIVE MapSerialize(_)
MapSerialize(msgs) ==
    IF msgs = <<>>
    THEN <<>>
    ELSE <<MessageEvent(serialize_message(Head(msgs)))>> \o MapSerialize(Tail(msgs))

\* Lines 210-216: one message event per message beyond last_message_cnt.
NewMessageEvents(s, cnt) ==
    IF Len(s.messages) > cnt
    THEN MapSerialize(SubSeq(s.messages, cnt + 1, Len(s.messages)))
    ELSE <<>>

NewMessageCount(s, cnt) ==
    IF Len(s.messages) > cnt THEN Len(s.messages) ELSE cnt

\* Lines 218-231: the plan is yielded when none was yielded yet, current_plan is
\* truthy and serialize_plan gives no error.
YieldsPlan(s, yielded) ==
    /\ ~yielded
    /\ s.current_plan.kind # "None"
    /\ "error" \notin DOMAIN serialize_plan(s.current_plan)

NewPlanEvents(s, yielded) ==
    IF YieldsPlan(s, yielded)
    THEN <<PlanEvent(serialize_plan(s.current_plan))>>
    ELSE <<>>

StepIsNewNoDedup(step, seen) ==
    Truthy(step.execution_res)

\* Line 243: `if step_res and step_title not in yielded_steps`
StepIsNew(step, seen) ==
    Truthy(step.execution_res) /\ step.title \notin seen

\* Lines 240-250: the loop over the plan's steps; the pair of the events yielded
\* and the set of yielded titles after it.
RECURSIVE StepEvents(_, _)
StepEvents(steps, seen) ==
    IF steps = <<>>
    THEN [out |-> <<>>, seen |-> seen]
    ELSE LET step == Head(steps)
             new == StepIsNew(step, seen)
             rest == StepEvents(Tail(steps),
                                IF new THEN seen \cup {step.title} ELSE seen)
         IN  [out |-> (IF new
                       THEN <<ExecutionResEvent(step.title, step.execution_res)>>
                       ELSE <<>>) \o rest.out,
              seen |-> rest.seen]

NewStepEvents(s, seen) ==
    IF s.current_plan.kind = "Plan"
    THEN StepEvents(s.current_plan.steps, seen)
    ELSE [out |-> <<>>, seen |-> seen]

\* Lines 252-258
NewFinalReportEventsNever(s) ==
    <<>>

NewFinalReportEvents(s) ==
    IF s.final_report # "" THEN <<FinalReportEvent(s.final_report)>> ELSE <<>>

\* What the reporter's model does when called: it replies, or the call fails.
ReporterOutcomes ==
    [raises : {FALSE}, content : ReporterReplies]
    \cup {[raises |-> TRUE, content |-> ""]}

\* handle_recursion_limit: the report of a direct reporter_node call on the
\* state given, or the failure text when that call raises.
handle_recursion_limit(s, outcome) ==
    IF outcome.raises
    THEN "Report generation failed due to recursion limit"
    ELSE ApplyUpdate(s, reporter_node(s, outcome.content).update).final_report

-----------------------------------------------------------------------------
(* The scenario of a two-step plan: a RESEARCH step, then a PROCESSING step *)

TwoStepOutput ==
    [json |-> "object", has_enough_context |-> "false", schema_ok |-> TRUE,
     steps |-> <<[title |-> "step 1", step_type |-> "research", execution_res |-> None],
                 [title |-> "step 2", step_type |-> "processing", execution_res |-> None]>>]

-----------------------------------------------------------------------------
(* Initial state: run_agent_workflow_async up to its first snapshot. The graph *)
(* streams its input state first, so the driver's turn comes first.           *)

Init ==
    /\ max_plan_iterations \in 0..MaxPlanIterations
    /\ \E human_feedback \in BOOLEAN :
          /\ state = initial_state(human_feedback)
          /\ last_state = initial_state(human_feedback)
          /\ on_script = (~human_feedback /\ max_plan_iterations >= 1)
    /\ node = "coordinator"
    /\ steps_run = 0
    /\ pc = "observe"
    /\ raised = ""
    /\ llm_calls = 0
    /\ last_message_cnt = 0
    /\ current_plan_yielded = FALSE
    /\ yielded_steps = {}
    /\ tool_events_queue = <<>>
    /\ events = <<>>
    /\ executed = <<>>
    /\ mcp_settings = NoSettings
    /\ agent_recursion_limit = Unset
    /\ delegate = NoAgent
    /\ call = [fn |-> "none"]
    /\ func_calls = <<>>
    /\ result = NoResult
    /\ _tool_event_callback = None
    /\ runs = <<>>

driver_vars ==
    <<last_message_cnt, current_plan_yielded, yielded_steps>>

\* The configuration of a run: no step of the run changes it.
config_vars ==
    <<mcp_settings, agent_recursion_limit>>

\* The number of tool calls made so far in the run.
ToolCallsMade ==
    Len(SelectSeq(events \o tool_events_queue, LAMBDA e : e.type = "tool_start"))

\* The body of the `async for` loop (lines 199-258) for the snapshot at hand.
ObserveSnapshot ==
    /\ pc = "observe"
    /\ LET s == state
           step_events == NewStepEvents(s, yielded_steps)
       IN  /\ last_state' = s
           /\ events' = events
                        \o tool_events_queue
                        \o NewMessageEvents(s, last_message_cnt)
                        \o NewPlanEvents(s, current_plan_yielded)
                        \o step_events.out
                        \o NewFinalReportEvents(s)
           /\ last_message_cnt' = NewMessageCount(s, last_message_cnt)
           /\ current_plan_yielded' = (current_plan_yielded
                                       \/ YieldsPlan(s, current_plan_yielded))
           /\ yielded_steps' = step_events.seen
           /\ tool_events_queue' = <<>>
    /\ pc' = "graph"
    /\ UNCHANGED <<node, state, steps_run, raised, llm_calls, max_plan_iterations,
                   executed, on_script, config_vars, delegate, call_vars, run_vars>>

\* The `except Exception` of lines 266-278: graph execution raised e. The
\* scenario goes on only when scripted says so and the fallback report is there.
Except(e, scripted) ==
    /\ raised' = e
    /\ pc' = "closed"
    /\ IF IsRecursionLimitError(e)
       THEN \E outcome \in ReporterOutcomes :
               /\ events' = Append(events,
                                   FinalReportEvent(handle_recursion_limit(last_state, outcome)))
               /\ on_script' = (scripted /\ ~outcome.raises /\ outcome.content # "")
       ELSE /\ events' = Append(events, ErrorEvent(e))
            /\ on_script' = FALSE
    /\ UNCHANGED <<node, state, steps_run, max_plan_iterations, driver_vars,
                   last_state, executed, config_vars, call_vars, run_vars>>

\* An exception raised by a node that made no tool call.
NodeRaises(e) ==
    Except(e, FALSE) /\ UNCHANGED <<tool_events_queue, delegate>>

\* The graph takes a node's Command: the update goes into the State, the goto
\* names the next node, and a changed State is streamed as the next snapshot.
Transition(cmd) ==
    /\ state' = ApplyUpdate(state, cmd.update)
    /\ node' = cmd.goto
    /\ steps_run' = steps_run + 1
    /\ pc' = IF DOMAIN cmd.update = {} THEN "graph" ELSE "observe"
    /\ raised' = raised
    /\ UNCHANGED <<max_plan_iterations, driver_vars, last_state, tool_events_queue,
                   events, executed, config_vars, call_vars, run_vars>>

\* The Command of a node that builds no agent.
Apply(cmd) ==
    Transition(cmd) /\ delegate' = NoAgent

\* A node ran to its end: it returned cmd or raised cmd.exc.
Finish(cmd) ==
    IF cmd.exc # ""
    THEN NodeRaises(cmd.exc) /\ llm_calls' = llm_calls + 1
    ELSE Apply(cmd) /\ llm_calls' = llm_calls + 1

CanRun(n) ==
    pc = "graph" /\ node = n /\ steps_run < RecursionLimit

\* A model call that fails (transport failure to the model).
ModelCallFails ==
    \E e \in LLMErrors : NodeRaises(e) /\ llm_calls' = llm_calls + 1

Coordinator ==
    /\ CanRun("coordinator")
    /\ \/ \E has_tool_call \in BOOLEAN :
             /\ Finish(coordinator_node(state, has_tool_call))
             /\ on_script' = (on_script /\ has_tool_call)
       \/ ModelCallFails

Planner ==
    /\ CanRun("planner")
    /\ IF PlannerInvokesModel(state, max_plan_iterations)
       THEN \/ \E full_response \in ModelOutputs :
                  LET cmd == planner_node(state, max_plan_iterations, full_response)
                  IN  /\ Finish(cmd)
                      /\ cmd.exc = "" =>
                             on_script' = (on_script /\ full_response = TwoStepOutput)
            \/ ModelCallFails
       ELSE /\ Apply(planner_node(state, max_plan_iterations, TwoStepOutput))
            /\ UNCHANGED <<llm_calls, on_script>>

HumanFeedback ==
    /\ CanRun("feedback_node")
    /\ \E feedback \in (IF state.human_feedback THEN FeedbackInputs ELSE {""}) :
          LET cmd == human_feedback_node(state, feedback)
          IN  IF cmd.exc # ""
              THEN NodeRaises(cmd.exc) /\ UNCHANGED llm_calls
              ELSE Apply(cmd) /\ UNCHANGED <<llm_calls, on_script>>

PlanModifier ==
    /\ CanRun("plan_modifier")
    /\ IF HasFeedbackMessage(state)
       THEN \/ \E full_response \in ModelOutputs :
                  LET cmd == plan_modifier_node(state, full_response)
                  IN  /\ Finish(cmd)
                      /\ cmd.exc = "" => on_script' = FALSE
            \/ ModelCallFails
       ELSE /\ Apply(plan_modifier_node(state, TwoStepOutput))
            /\ UNCHANGED <<llm_calls, on_script>>

ResearchTeam ==
    /\ CanRun("research_team")
    /\ LET cmd == research_team_node(state)
       IN  IF cmd.exc # ""
           THEN NodeRaises(cmd.exc) /\ UNCHANGED llm_calls
           ELSE Apply(cmd) /\ UNCHANGED <<llm_calls, on_script>>

\* researcher_node and coder_node: _setup_and_execute_agent_step builds the
\* agent of that name with the tools of its providers, and _execute_agent_step
\* invokes it on the first pending step. The assignment to the step is made in
\* place, on the plan object that the State and the driver's last snapshot
\* both hold.
ExecuteStep(agent_name) ==
    /\ CanRun(agent_name)
    /\ LET mcp_servers == SelectedServers(mcp_settings, agent_name)
           default_tools == DefaultTools(agent_name)
           agent == create_agent(agent_name, mcp_servers,
                                 LoadedTools(mcp_settings, agent_name, default_tools),
                                 default_tools, 0)
           invoked == [agent EXCEPT
                          !.recursion_limit = recursion_limit(agent_recursion_limit)]
       IN  IF GetToolsFails(mcp_settings, mcp_servers)
           THEN /\ Except("MCPError", FALSE)
                /\ UNCHANGED <<llm_calls, tool_events_queue, delegate>>
           ELSE IF state.current_plan.kind # "Plan"
           THEN /\ Except("AttributeError", FALSE)
                /\ delegate' = agent
                /\ UNCHANGED <<llm_calls, tool_events_queue>>
           ELSE IF FirstPending(state.current_plan) = 0
           THEN /\ Transition(execute_agent_step(state, agent_name, "").cmd)
                /\ delegate' = agent
                /\ UNCHANGED <<llm_calls, on_script>>
           ELSE \/ \E response_content \in AgentReplies, calls \in ToolCalls :
                      LET r == execute_agent_step(state, agent_name, response_content)
                          i == FirstPending(state.current_plan)
                      IN  /\ state' = ApplyUpdate([state EXCEPT !.current_plan = r.plan],
                                                  r.cmd.update)
                          /\ last_state' = [last_state EXCEPT !.current_plan = r.plan]
                          /\ executed' = Append(executed,
                                                [index |-> i,
                                                 title |-> state.current_plan.steps[i].title,
                                                 content |-> response_content])
                          /\ node' = r.cmd.goto
                          /\ steps_run' = steps_run + 1
                          /\ pc' = "observe"
                          /\ llm_calls' = llm_calls + 1
                          /\ on_script' = (on_script /\ response_content # "")
                          /\ tool_events_queue' = tool_events_queue \o ToolCallEvents(calls, ToolCallsMade + 1)
                          /\ delegate' = invoked
                          /\ UNCHANGED <<raised, max_plan_iterations, driver_vars, events,
                                         config_vars, call_vars, run_vars>>
                \/ \E e \in AgentErrors, calls \in ToolCalls :
                      /\ Except(e, FALSE)
                      /\ tool_events_queue' = tool_events_queue \o ToolCallEvents(calls, ToolCallsMade + 1)
                      /\ llm_calls' = llm_calls + 1
                      /\ delegate' = invoked

Researcher ==
    ExecuteStep("researcher")

Coder ==
    ExecuteStep("coder")

Reporter ==
    /\ CanRun("reporter")
    /\ \E outcome \in ReporterOutcomes :
          IF outcome.raises
          THEN NodeRaises("LLMError") /\ llm_calls' = llm_calls + 1
          ELSE /\ Finish(reporter_node(state, outcome.content))
               /\ on_script' = (on_script /\ outcome.content # "")

\* The graph is out of steps before reaching the end: GraphRecursionError.
StepBudgetExceeded ==
    /\ pc = "graph"
    /\ node # "__end__"
    /\ steps_run >= RecursionLimit
    /\ Except("GraphRecursionError", on_script)
    /\ UNCHANGED <<llm_calls, tool_events_queue, delegate>>

\* A variant of the driver that keeps waiting on a stream that is exhausted.
StreamStaysOpen ==
    /\ pc = "graph"
    /\ node = "__end__"
    /\ UNCHANGED vars

\* The graph reached the end: the stream is exhausted and the driver returns.
StreamEnds ==
    /\ pc = "graph"
    /\ node = "__end__"
    /\ pc' = "closed"
    /\ UNCHANGED <<node, state, steps_run, raised, llm_calls, max_plan_iterations,
                   driver_vars, last_state, tool_events_queue, events, executed,
                   on_script, config_vars, delegate, call_vars, run_vars>>

Next ==
    \/ ObserveSnapshot
    \/ Coordinator
    \/ Planner
    \/ HumanFeedback
    \/ PlanModifier
    \/ ResearchTeam
    \/ Researcher
    \/ Coder
    \/ Reporter
    \/ StepBudgetExceeded
    \/ StreamEnds

Spec ==
    Init /\ [][Next]_vars

\* A run whose calls all come back: the driver awaits the executor, and the
\* executor runs the node that is due, until the stream is closed.
TerminationSpec ==
    Spec /\ WF_vars(Next)

-----------------------------------------------------------------------------
(* Runs under each configuration of the tool providers and of the agent's    *)
(* recursion limit, taken up where research_team has sent the first step of *)
(* an accepted one-step plan to its agent.                                   *)

OneStepPlan(step_type) ==
    [kind |-> "Plan", has_enough_context |-> FALSE,
     steps |-> <<NewStep("step 1", step_type, None)>>]

\* coordinator -> planner -> human_feedback (auto-accept) -> research_team.
StateAtAgent(step_type) ==
    [messages |-> <<AIMessage("plan_json", "planner")>>,
     human_feedback |-> FALSE,
     plan_iterations |-> 1,
     current_plan |-> OneStepPlan(step_type),
     observations |-> <<>>,
     final_report |-> ""]

AtAgent(step_type) ==
    /\ state = StateAtAgent(step_type)
    /\ last_state = StateAtAgent(step_type)
    /\ node = (IF step_type = "research" THEN "researcher" ELSE "coder")
    /\ steps_run = 4
    /\ pc = "graph"
    /\ raised = ""
    /\ llm_calls = 2
    /\ max_plan_iterations = 1
    /\ last_message_cnt = 1
    /\ current_plan_yielded = TRUE
    /\ yielded_steps = {}
    /\ tool_events_queue = <<>>
    /\ events = <<MessageEvent(serialize_message(UserMessage)),
                  PlanEvent(serialize_plan(OneStepPlan(step_type)))>>
    /\ executed = <<>>
    /\ on_script = FALSE
    /\ delegate = NoAgent
    /\ call = [fn |-> "none"]
    /\ func_calls = <<>>
    /\ result = NoResult
    /\ _tool_event_callback = None
    /\ runs = <<>>

AgentSetupInit ==
    /\ \E step_type \in StepType : AtAgent(step_type)
    /\ mcp_settings \in McpSettings
    /\ agent_recursion_limit \in EnvValues

AgentSetupNext ==
    \/ Researcher
    \/ Coder
    \/ ObserveSnapshot

AgentSetupSpec ==
    AgentSetupInit /\ [][AgentSetupNext]_vars

-----------------------------------------------------------------------------
(* Properties *)

EventsOfType(type) ==
    SelectSeq(events, LAMBDA e : e.type = type)

HasPlan ==
    state.current_plan.kind = "Plan"

ExecutionPass ==
    pc = "graph" /\ node \in {"researcher", "coder"} /\ HasPlan

C2_PlanIterationBound ==
    /\ [](state.plan_iterations <= max_plan_iterations)
    /\ [][(pc = "graph" /\ node = "planner" /\ steps_run < RecursionLimit
           /\ state.plan_iterations >= max_plan_iterations) =>
             /\ node' = "reporter"
             /\ state' = state
             /\ llm_calls' = llm_calls
             /\ raised' = ""]_vars

\* The planner has sent a fully executed plan on to the reporter because the
\* iteration budget was used up.
C2_Witness ==
    /\ pc = "graph"
    /\ node = "reporter"
    /\ max_plan_iterations >= 1
    /\ state.plan_iterations = max_plan_iterations
    /\ HasPlan
    /\ ~state.current_plan.has_enough_context
    /\ Len(executed) >= 1
    /\ PendingSteps(state.current_plan) = {}

RunClosed ==
    pc = "closed"

\* C3: when graph execution ends in the recursion-limit error, the driver calls
\* the reporter on the last snapshot and the stream ends with exactly one
\* final_report event and no error event, also when that reporter call fails.
C3_BudgetExhaustionReports ==
    (RunClosed /\ raised = "GraphRecursionError") =>
        /\ Len(EventsOfType("final_report")) = 1
        /\ Len(EventsOfType("error")) = 0
        /\ events[Len(events)].type = "final_report"
        /\ events[Len(events)].content
              \in ReporterReplies \cup {"Report generation failed due to recursion limit"}
        /\ last_state = state

\* The graph ran out of its step budget and the fallback's reporter call failed.
C3_Witness ==
    /\ RunClosed
    /\ raised = "GraphRecursionError"
    /\ steps_run = RecursionLimit
    /\ events[Len(events)] =
          FinalReportEvent("Report generation failed due to recursion limit")

\* C4 (as claimed): the message events of a run are exactly the messages added
\* to State.messages after the initial state, so their number is
\* len(final messages) - len(initial messages).
C4_MessageEventsAsClaimed ==
    (RunClosed /\ raised = "") =>
        Len(EventsOfType("message")) = Len(state.messages) - Len(<<UserMessage>>)

HasTerminalEvent ==
    \E i \in 1..Len(events) : events[i].type \in {"final_report", "error"}

\* C5 (as claimed): on every path the closed stream holds a final_report event
\* or an error event.
C5_AlwaysTerminalEventAsClaimed ==
    RunClosed => HasTerminalEvent

\* C5 (amended): the closed stream holds a final_report or error event whenever
\* graph execution raised or a non-empty final_report was written; a stream that
\* closes with neither belongs to a run whose graph reached the end with
\* final_report still empty.
C5_TerminalEvent ==
    RunClosed =>
        /\ (raised # "" \/ state.final_report # "") => HasTerminalEvent
        /\ ~HasTerminalEvent =>
              (raised = "" /\ node = "__end__" /\ state.final_report = "")

\* A run that went through planning and reporting closed with its report.
C5_Witness ==
    /\ RunClosed
    /\ raised = ""
    /\ state.final_report = "report"
    /\ HasPlan
    /\ events[Len(events)] = FinalReportEvent("report")

\* The events a step of the driver adds to the stream.
AddedEvents ==
    SubSeq(events', Len(events) + 1, Len(events'))

AddedPlanEvents ==
    SelectSeq(AddedEvents, LAMBDA e : e.type = "plan")

\* C6: a run yields at most one plan event; it is yielded at the first snapshot
\* whose current_plan is a validated Plan and carries that Plan; a current_plan
\* that is still a raw string is never yielded.
C6_OnePlanEvent ==
    /\ [](Len(EventsOfType("plan")) <= 1)
    /\ [][pc = "observe" =>
            IF HasPlan /\ Len(EventsOfType("plan")) = 0
            THEN AddedPlanEvents =
                    <<[type |-> "plan",
                       plan |-> [has_enough_context |-> state.current_plan.has_enough_context,
                                 steps |-> state.current_plan.steps]]>>
            ELSE AddedPlanEvents = <<>>]_vars

\* The first plan was yielded once it was validated, and the raw text of a
\* later plan is in the State without a second plan event.
C6_Witness ==
    /\ pc = "graph"
    /\ Len(EventsOfType("plan")) = 1
    /\ state.current_plan.kind = "str"
    /\ state.plan_iterations = 1

NonEmptyExecutions ==
    SelectSeq(executed, LAMBDA x : x.content # "")

\* C7 (as claimed): every step whose execution_res becomes non-empty gets an
\* execution_res event of its own, also when steps share a title or belong to a
\* later plan: once the snapshot of an execution is processed there are at
\* least as many execution_res events as steps executed with a non-empty result.
C7_EventPerStepAsClaimed ==
    pc # "observe" =>
        Len(EventsOfType("execution_res")) >= Len(NonEmptyExecutions)

\* The first position whose step has no result yet, stated on the results.
FirstUnset(steps) ==
    CHOOSE i \in 1..Len(steps) :
        /\ ~Truthy(steps[i].execution_res)
        /\ \A j \in 1..(i - 1) : Truthy(steps[j].execution_res)

RouteOf(s) ==
    IF s.current_plan.kind = "None"
    THEN "planner"
    ELSE IF s.current_plan.steps = <<>>
    THEN "planner"
    ELSE IF \A i \in 1..Len(s.current_plan.steps) :
                Truthy(s.current_plan.steps[i].execution_res)
    THEN "planner"
    ELSE IF s.current_plan.steps[FirstUnset(s.current_plan.steps)].step_type = "research"
    THEN "researcher"
    ELSE "coder"

\* C8: research_team routes on the first step in plan order without a result:
\* researcher for RESEARCH, coder for PROCESSING; planner when there is no plan,
\* no step, or every step has a result. It changes nothing else.
C8_Routing ==
    [][(pc = "graph" /\ node = "research_team" /\ steps_run < RecursionLimit
        /\ state.current_plan.kind # "str") =>
          /\ node' = RouteOf(state)
          /\ state' = state
          /\ raised' = ""]_vars

\* Plan [RESEARCH, PROCESSING]: the researcher has done step 1 and the next
\* pass of research_team has gone to the coder.
C8_Witness ==
    /\ pc = "graph"
    /\ node = "coder"
    /\ HasPlan
    /\ Len(state.current_plan.steps) = 2
    /\ state.current_plan.steps[1].step_type = "research"
    /\ state.current_plan.steps[2].step_type = "processing"
    /\ state.current_plan.steps[1].execution_res = "r1"
    /\ state.current_plan.steps[2].execution_res = None
    /\ Len(executed) = 1

ReportedKinds ==
    SelectSeq(events, LAMBDA e : e.type \in {"plan", "execution_res", "final_report"})

KindAndTitle(e) ==
    IF e.type = "execution_res" THEN <<e.type, e.step_title>> ELSE <<e.type, "">>

TwoStepOrder ==
    <<<<"plan", "">>, <<"execution_res", "step 1">>,
      <<"execution_res", "step 2">>, <<"final_report", "">>>>

\* C9: auto-accept, and the planner returns a RESEARCH step then a PROCESSING
\* step with has_enough_context=false (agents and reporter answering with
\* non-empty text): the plan, execution_res and final_report events come as
\* plan, execution_res(step 1), execution_res(step 2), final_report, each once.
C9_TwoStepEventOrder ==
    on_script =>
        /\ Len(ReportedKinds) <= Len(TwoStepOrder)
        /\ \A i \in 1..Len(ReportedKinds) :
              KindAndTitle(ReportedKinds[i]) = TwoStepOrder[i]
        /\ RunClosed => Len(ReportedKinds) = Len(TwoStepOrder)

\* The two-step run has closed with both steps executed.
C9_Witness ==
    /\ on_script
    /\ RunClosed
    /\ Len(executed) >= 2
    /\ Len(events) >= 4

\* C10 (as claimed): whatever the planner's model returns, planner_node and
\* human_feedback_node end with a transition and never raise.
C10_PlanNodesNeverRaiseAsClaimed ==
    ~(/\ RunClosed
      /\ node \in {"planner", "feedback_node"}
      /\ raised \in {"AttributeError", "ValidationError", "KeyError", "TypeError"})

\* The graph's own step budget ran out (an agent's GraphRecursionError comes
\* while the graph still has steps left).
BudgetExhausted ==
    raised = "GraphRecursionError" /\ steps_run >= RecursionLimit

\* C11 (as claimed): a run that fails with any exception other than the
\* exhaustion of the graph's step budget, a failure inside an agent delegate
\* included, closes with exactly one error event, as its last event, and
\* without a final_report event.
C11_OneErrorEventAsClaimed ==
    (RunClosed /\ raised # "" /\ ~BudgetExhausted) =>
        /\ Len(EventsOfType("error")) = 1
        /\ events[Len(events)].type = "error"
        /\ Len(EventsOfType("final_report")) = 0

\* C12 (as claimed): when the agent delegate raises while executing a step, the
\* failure reaches the caller as an error event and the State is as before:
\* the step still pending, no message and no observation added.
C12_DelegateFailureAsClaimed ==
    [][(ExecutionPass /\ steps_run < RecursionLimit /\ raised' # "") =>
          /\ state' = state
          /\ events'[Len(events')].type = "error"]_vars

\* C13 (as claimed): a researcher/coder execution that returns, with a step
\* pending, gives the first pending step a non-empty execution_res, leaves the
\* other steps' results alone and appends one observation; with no step
\* pending it goes back to research_team without an update.
C13_StepExecutionAsClaimed ==
    [][(ExecutionPass /\ steps_run < RecursionLimit /\ raised' = "") =>
          LET steps == state.current_plan.steps
              i == FirstPending(state.current_plan)
          IN  /\ node' = "research_team"
              /\ IF i = 0
                 THEN state' = state
                 ELSE /\ Truthy(state'.current_plan.steps[i].execution_res)
                      /\ \A j \in (1..Len(steps)) \ {i} :
                            state'.current_plan.steps[j].execution_res
                               = steps[j].execution_res
                      /\ Len(state'.observations) = Len(state.observations) + 1
                      /\ SubSeq(state'.observations, 1, Len(state.observations))
                            = state.observations]_vars

\* The servers the claim selects for a role, and what they expose.
ClaimedSelection(agent_type) ==
    {server_name \in ServerNames :
        /\ mcp_settings.kind = "dict"
        /\ mcp_settings.servers[server_name].enabled_tools # {}
        /\ agent_type \in mcp_settings.servers[server_name].add_to_agents}

ExposedBy(servers) ==
    {tool \in [name : {"t1", "t2", "t3"}, provider : servers] :
        tool.name \in ExposedNames(tool.provider)}

AgentBuilt ==
    delegate.kind = "agent"

\* C14 (as claimed): a provider is selected for a role iff its enabled tool set
\* is non-empty and add_to_agents has the role; the delegate's tools are the
\* default tools plus every tool the selected providers expose (the default
\* tools alone when none is selected), and the default list stays as it was.
C14_AllExposedToolsAsClaimed ==
    AgentBuilt =>
        /\ delegate.mcp_servers = ClaimedSelection(delegate.agent_type)
        /\ delegate.tools = DefaultTools(delegate.agent_type)
                            \cup ExposedBy(ClaimedSelection(delegate.agent_type))
        /\ delegate.default_tools = DefaultTools(delegate.agent_type)

\* C14 (amended): as above, but of the tools the selected providers expose the
\* delegate gets those whose name is in the enabled_tools of a selected provider.
C14_EnabledToolsOfSelected ==
    AgentBuilt =>
        LET selected == ClaimedSelection(delegate.agent_type)
        IN  /\ delegate.mcp_servers = selected
            /\ delegate.tools
                  = DefaultTools(delegate.agent_type)
                    \cup {tool \in ExposedBy(selected) :
                             \E server_name \in selected :
                                tool.name \in mcp_settings.servers[server_name].enabled_tools}
            /\ (selected = {} => delegate.tools = DefaultTools(delegate.agent_type))
            /\ DefaultTools(delegate.agent_type) \subseteq delegate.tools
            /\ delegate.default_tools = DefaultTools(delegate.agent_type)

\* The researcher ran with s1 as its only provider, which enables t1 of the two
\* tools it exposes; s2 enables tools for the coder only.
C14_Witness ==
    /\ AgentBuilt
    /\ executed # <<>>
    /\ delegate.agent_type = "researcher"
    /\ delegate.mcp_servers = {"s1"}
    /\ mcp_settings.servers["s1"].enabled_tools = {"t1"}
    /\ mcp_settings.servers["s2"].enabled_tools = {"t1", "t2"}
    /\ delegate.tools = DefaultTools("researcher") \cup {Tool("t1", "s1")}

\* C15 (as claimed): when a selected provider cannot be reached, the delegate
\* is built with the default tools and the step goes to it; the step does not
\* fail for the provider.
C15_DegradesToDefaultsAsClaimed ==
    [][(ExecutionPass /\ steps_run < RecursionLimit
        /\ \E server_name \in ClaimedSelection(node) :
              ~mcp_settings.servers[server_name].available) =>
          /\ raised' # "MCPError"
          /\ delegate'.kind = "agent"
          /\ delegate'.tools = DefaultTools(node)]_vars

\* The agent was invoked: it replied, or its invocation raised.
AgentInvoked ==
    AgentBuilt /\ (executed # <<>> \/ raised \in AgentErrors)

\* A non-empty string of digits, not all of them 0.
PositiveDecimal(env) ==
    /\ env.set
    /\ env.value # <<>>
    /\ \A i \in 1..Len(env.value) : IsDigit(env.value[i])
    /\ \E i \in 1..Len(env.value) : env.value[i] # "0"

RECURSIVE PlaceValues(_, _)
PlaceValues(digits, i) ==
    IF i > Len(digits)
    THEN 0
    ELSE DigitValue(digits[i]) * 10 ^ (Len(digits) - i) + PlaceValues(digits, i + 1)

\* C16: the recursion limit given to the agent is a positive integer: the
\* number AGENT_RECURSION_LIMIT spells when that is an integer above 0, and 20
\* when the variable is unset, spells no integer or spells one that is not
\* positive; no value of the variable makes the step fail, and the graph's step
\* budget has no part in it.
C16_RecursionLimit ==
    AgentInvoked =>
        /\ delegate.recursion_limit \in Nat \ {0}
        /\ delegate.recursion_limit
              = (IF PositiveDecimal(agent_recursion_limit)
                 THEN PlaceValues(agent_recursion_limit.value, 1)
                 ELSE 20)
        /\ raised \in {""} \cup AgentErrors

\* AGENT_RECURSION_LIMIT is "-2" and the agent executed the step under the
\* default limit.
C16_Witness ==
    /\ AgentInvoked
    /\ agent_recursion_limit = [set |-> TRUE, value |-> <<"-", "2">>]
    /\ delegate.recursion_limit = 20
    /\ Len(executed) = 1
    /\ executed[1].content = "r1"

\* C17 (as claimed): when the coordinator's model returns no tool call, the run
\* yields exactly one message event, the coordinator's reply, and ends without
\* a final_report, plan or error event.
C17_DirectAnswerAsClaimed ==
    (RunClosed /\ raised = "" /\ node = "__end__" /\ llm_calls = 1) =>
        /\ Len(EventsOfType("message")) = 1
        /\ events[1].message.name = "coordinator"
        /\ Len(EventsOfType("final_report")) = 0
        /\ Len(EventsOfType("plan")) = 0
        /\ Len(EventsOfType("error")) = 0

\* C18 (as claimed): when the planner returns a plan with has_enough_context =
\* true (and the reporter's model answers with a report), the run yields a plan
\* event with has_enough_context = true, goes from planner straight to
\* reporter, yields a final_report event and no execution_res event.
C18_SufficientPlanAsClaimed ==
    (/\ RunClosed
     /\ raised = ""
     /\ HasPlan
     /\ state.plan_iterations = 0
     /\ state.final_report # "") =>
        /\ state.current_plan.has_enough_context
        /\ Len(EventsOfType("plan")) = 1
        /\ EventsOfType("plan")[1].plan.has_enough_context
        /\ steps_run = 3
        /\ executed = <<>>
        /\ Len(EventsOfType("final_report")) = 1
        /\ Len(EventsOfType("execution_res")) = 0

\* C19: on model output that is no valid JSON, planner_node updates nothing and
\* goes to reporter when plan_iterations > 0, to the end when it is 0; the run
\* that ends this way (the coordinator's and the planner's model were called,
\* and the end is reached with no plan) has no plan event and no final_report
\* event.
C19_InvalidPlannerJson ==
    /\ (pc = "graph" /\ node = "planner"
        /\ PlannerInvokesModel(state, max_plan_iterations)) =>
          \A full_response \in ModelOutputs :
             full_response.json = "invalid" =>
                /\ planner_node(state, max_plan_iterations, full_response).goto
                      = (IF state.plan_iterations > 0 THEN "reporter" ELSE "__end__")
                /\ DOMAIN planner_node(state, max_plan_iterations, full_response).update
                      = {}
                /\ planner_node(state, max_plan_iterations, full_response).exc = ""
    /\ (RunClosed /\ raised = "" /\ node = "__end__" /\ llm_calls = 2
        /\ max_plan_iterations > 0 /\ state.current_plan.kind = "None") =>
          /\ state.plan_iterations = 0
          /\ Len(EventsOfType("plan")) = 0
          /\ Len(EventsOfType("final_report")) = 0
          /\ Len(EventsOfType("error")) = 0

\* The first planner output was no JSON and the run has closed at the end
\* node, with only the event of the user's message.
C19_Witness ==
    /\ RunClosed
    /\ raised = ""
    /\ node = "__end__"
    /\ llm_calls = 2
    /\ max_plan_iterations > 0
    /\ state.current_plan.kind = "None"
    /\ Len(events) = 1

\* C20: final_report changes only in a step of reporter_node, reporter_node
\* goes to the end and nowhere else, and once the end is reached no node
\* executes and the State stays as it is, so final_report is written at most
\* once in a run.
C20_ReporterTerminal ==
    [][/\ state'.final_report # state.final_report =>
             (pc = "graph" /\ node = "reporter")
       /\ (pc = "graph" /\ node = "reporter" /\ steps_run < RecursionLimit
           /\ raised' = "") => node' = "__end__"
       /\ node = "__end__" =>
             /\ node' = "__end__"
             /\ state' = state
             /\ steps_run' = steps_run
             /\ llm_calls' = llm_calls]_vars

\* The reporter wrote its report after a step was executed, and the run has
\* closed at the end node with that report as the last event.
C20_Witness ==
    /\ RunClosed
    /\ node = "__end__"
    /\ state.final_report = "report"
    /\ Len(executed) >= 1
    /\ Len(EventsOfType("final_report")) = 1

\* The state the provider configurations start from is one the run reaches.
AtAgentReached ==
    \E step_type \in StepType : AtAgent(step_type)

-----------------------------------------------------------------------------
(* Tool telemetry and the snapshots *)

\* The telemetry of the run in the order of its production: what the driver
\* has yielded of it, then what waits in the queue.
TelemetryProduced ==
    SelectSeq(events, IsTelemetry) \o tool_events_queue

\* Calls are numbered as they are made, and each call's tool_start comes
\* right before its tool_complete.
InCallOrder(telemetry) ==
    \A i \in 1..Len(telemetry) :
        /\ telemetry[i].call = (i + 1) \div 2
        /\ telemetry[i].type = (IF i % 2 = 1 THEN "tool_start" ELSE "tool_complete")

IsPrefix(p, q) ==
    /\ Len(p) <= Len(q)
    /\ SubSeq(q, 1, Len(p)) = p

-----------------------------------------------------------------------------
(* The State across the nodes of the plan loop *)

AtNode(n) ==
    pc = "graph" /\ node = n /\ steps_run < RecursionLimit

\* C27 (as claimed): across every step of a run the messages of the State
\* before the step are a prefix of the messages after it.
C27_MessagesAppendOnlyAsClaimed ==
    [][IsPrefix(state.messages, state'.messages)]_vars

\* C28: plan_iterations never decreases; it changes only in a step of
\* human_feedback_node that accepts the plan, by exactly +1, together with
\* current_plan becoming the validated Plan of the planner's output and a
\* transition to reporter if has_enough_context else to research_team; every
\* accepting step that updates the State counts, and with the flag false a
\* valid plan is always accepted.
C28_PlanIterations ==
    [][/\ state'.plan_iterations >= state.plan_iterations
       /\ state'.plan_iterations # state.plan_iterations =>
             /\ AtNode("feedback_node")
             /\ state'.plan_iterations = state.plan_iterations + 1
             /\ state.current_plan.kind = "str"
             /\ ValidPlan(state.current_plan.out)
             /\ state'.current_plan = ModelValidate(state.current_plan.out)
             /\ state'.messages = state.messages
             /\ node' = (IF state.current_plan.out.has_enough_context = "true"
                         THEN "reporter" ELSE "research_team")
       /\ (AtNode("feedback_node") /\ node' \in {"reporter", "research_team"}
           /\ state' # state) =>
             state'.plan_iterations = state.plan_iterations + 1
       /\ (AtNode("feedback_node") /\ ~state.human_feedback
           /\ state.current_plan.kind = "str"
           /\ ValidPlan(state.current_plan.out)) =>
             state'.plan_iterations = state.plan_iterations + 1]_vars

\* A plan was accepted by the human, executed, and the next plan of the
\* planner was accepted too.
C28_Witness ==
    /\ state.human_feedback
    /\ state.plan_iterations = 2
    /\ HasPlan
    /\ Len(executed) >= 1

\* C29 (as claimed): with the flag true and an [EDIT_PLAN] input,
\* human_feedback_node goes to plan_modifier, appends exactly one message
\* named feedback and leaves current_plan and plan_iterations as they are;
\* with the flag false it never goes to plan_modifier.
C29_EditPlanAsClaimed ==
    [][AtNode("feedback_node") =>
          /\ node' = "plan_modifier" =>
                /\ state.human_feedback
                /\ Len(state'.messages) = Len(state.messages) + 1
                /\ IsPrefix(state.messages, state'.messages)
                /\ state'.messages[Len(state'.messages)].name = "feedback"
                /\ state'.current_plan = state.current_plan
                /\ state'.plan_iterations = state.plan_iterations
          /\ ~state.human_feedback => node' # "plan_modifier"]_vars

\* C30 (as claimed): unless its model call fails, plan_modifier_node always
\* goes to human_feedback: with the validated revision as the new current_plan,
\* or with no update at all when there is no feedback message or the revision
\* is not JSON; plan_iterations and observations are never changed.
C30_PlanModifierAsClaimed ==
    [][(AtNode("plan_modifier") /\ raised' \notin LLMErrors) =>
          /\ raised' = ""
          /\ node' = "feedback_node"
          /\ state'.plan_iterations = state.plan_iterations
          /\ state'.observations = state.observations
          /\ \/ state' = state
             \/ /\ state'.current_plan.kind = "Plan"
                /\ \E full_response \in ModelOutputs :
                      /\ ValidPlan(full_response)
                      /\ state'.current_plan = ModelValidate(full_response)]_vars

-----------------------------------------------------------------------------
(* Function calls taken on their own: the workflow variables stay as they   *)
(* are when no run is under way.                                            *)

workflow_vars ==
    <<node, state, steps_run, pc, raised, llm_calls, max_plan_iterations,
      last_message_cnt, current_plan_yielded, yielded_steps, last_state,
      tool_events_queue, events, executed, on_script,
      mcp_settings, agent_recursion_limit, delegate>>

NoRun ==
    /\ node = "coordinator"
    /\ state = initial_state(FALSE)
    /\ last_state = initial_state(FALSE)
    /\ steps_run = 0
    /\ pc = "closed"
    /\ raised = ""
    /\ llm_calls = 0
    /\ max_plan_iterations = 0
    /\ last_message_cnt = 0
    /\ current_plan_yielded = FALSE
    /\ yielded_steps = {}
    /\ tool_events_queue = <<>>
    /\ events = <<>>
    /\ executed = <<>>
    /\ on_script = FALSE
    /\ mcp_settings = NoSettings
    /\ agent_recursion_limit = Unset
    /\ delegate = NoAgent

Returned(value) ==
    [type |-> "returned", value |-> value]

Raised(exc) ==
    [type |-> "raised", exc |-> exc]

-----------------------------------------------------------------------------
(* Plan.model_validate on the objects json.loads gives                      *)

\* The values of a key of a JSON object; Missing stands for an absent key.
Missing ==
    [type |-> "missing"]

JBool(b) ==
    [type |-> "bool", bool |-> b]

JStr(text) ==
    [type |-> "str", str |-> text]

JList(items) ==
    [type |-> "list", items |-> items]

\* The objects given to Step.model_validate: each key absent or present, a
\* step_type that is canonical, differs from a canonical value by case, or is
\* absent.
StepObjects ==
    [title : {Missing, JStr("step 1")},
     description : {Missing, JStr("d")},
     step_type : {Missing, JStr("research"), JStr("processing"), JStr("Research")},
     execution_res : {Missing, JStr("r0")}]

\* The objects given to Plan.model_validate. `steps`, when present, is a list
\* of objects.
PlanObjects ==
    [has_enough_context : {Missing, [type |-> "null"], JBool(TRUE), JBool(FALSE), JStr("yes")},
     thought : {Missing, JStr("th")},
     title : {Missing, JStr("T")},
     steps : {Missing}
             \cup {JList(items) :
                      items \in UNION {[1..n -> StepObjects] : n \in 0..MaxPlanSteps}}]

Invalid ==
    [ok |-> FALSE]

Valid(value) ==
    [ok |-> TRUE, value |-> value]

\* pydantic's validation of a required bool field: a bool, or one of the
\* strings it reads as a bool.
ValidateBool(v) ==
    IF v.type = "bool" THEN Valid(v.bool)
    ELSE IF v.type = "str" /\ v.str \in {"1", "on", "t", "true", "y", "yes"} THEN Valid(TRUE)
    ELSE IF v.type = "str" /\ v.str \in {"0", "off", "f", "false", "n", "no"} THEN Valid(FALSE)
    ELSE Invalid

\* A required str field.
ValidateStr(v) ==
    IF v.type = "str" THEN Valid(v.str) ELSE Invalid

\* Optional[str] with default None.
ValidateOptionalStr(v) ==
    IF v.type \in {"missing", "null"} THEN Valid(None)
    ELSE IF v.type = "str" THEN Valid(v.str)
    ELSE Invalid

\* A variant of ValidateStepType that takes RESEARCH for whatever is not a
\* canonical value.
ValidateStepTypeDefaulting(v) ==
    IF v.type = "str" /\ v.str \in StepType THEN Valid(v.str) ELSE Valid("research")

\* A required StepType field: the value of a member of the enumeration.
ValidateStepType(v) ==
    IF v.type = "str" /\ v.str \in StepType THEN Valid(v.str) ELSE Invalid

ValidateStep(obj) ==
    LET title == ValidateStr(obj.title)
        description == ValidateStr(obj.description)
        step_type == ValidateStepType(obj.step_type)
        execution_res == ValidateOptionalStr(obj.execution_res)
    IN  IF title.ok /\ description.ok /\ step_type.ok /\ execution_res.ok
        THEN Valid([title |-> title.value,
                    description |-> description.value,
                    step_type |-> step_type.value,
                    execution_res |-> execution_res.value])
        ELSE Invalid

\* List[Step], required.
ValidateSteps(v) ==
    IF v.type # "list" THEN Invalid
    ELSE IF \A i \in 1..Len(v.items) : ValidateStep(v.items[i]).ok
    THEN Valid([i \in 1..Len(v.items) |-> ValidateStep(v.items[i]).value])
    ELSE Invalid

\* Plan.model_validate(obj): the Plan, or ValidationError.
PlanModelValidate(obj) ==
    LET has_enough_context == ValidateBool(obj.has_enough_context)
        thought == ValidateStr(obj.thought)
        title == ValidateStr(obj.title)
        steps == ValidateSteps(obj.steps)
    IN  IF has_enough_context.ok /\ thought.ok /\ title.ok /\ steps.ok
        THEN Returned([kind |-> "Plan",
                       has_enough_context |-> has_enough_context.value,
                       thought |-> thought.value,
                       title |-> title.value,
                       steps |-> steps.value])
        ELSE Raised("ValidationError")

PlanValidationInit ==
    /\ NoRun
    /\ _tool_event_callback = None
    /\ runs = <<>>
    /\ call \in [fn : {"Plan.model_validate"}, obj : PlanObjects]
    /\ func_calls = <<>>
    /\ result = NoResult

ModelValidateCall ==
    /\ call.fn = "Plan.model_validate"
    /\ result = NoResult
    /\ result' = PlanModelValidate(call.obj)
    /\ UNCHANGED <<workflow_vars, run_vars, call, func_calls>>

PlanValidationNext ==
    ModelValidateCall

PlanValidationSpec ==
    PlanValidationInit /\ [][PlanValidationNext]_vars

Validated ==
    call.fn = "Plan.model_validate" /\ result # NoResult

Canonical(v) ==
    v \in {JStr("research"), JStr("processing")}

StepLacks(step) ==
    \/ step.title = Missing
    \/ step.description = Missing
    \/ step.step_type = Missing
    \/ ~Canonical(step.step_type)

\* The objects the claim is about.
Lacks(obj) ==
    \/ obj.has_enough_context = Missing
    \/ obj.title = Missing
    \/ obj.thought = Missing
    \/ /\ obj.steps # Missing
       /\ \E i \in 1..Len(obj.steps.items) : StepLacks(obj.steps.items[i])

\* C22: Plan.model_validate fails with ValidationError for every object that
\* lacks has_enough_context, title or thought, or that has a step lacking
\* title, description or step_type or with a step_type other than "research"
\* and "processing"; and a Plan that is returned has its title, thought and
\* its steps' titles, descriptions and step types from the object, none of
\* them filled in by default.
C22_PlanValidation ==
    Validated =>
        /\ Lacks(call.obj) => result = Raised("ValidationError")
        /\ result.type = "returned" =>
              LET plan == result.value
                  obj == call.obj
              IN  /\ obj.has_enough_context # Missing
                  /\ JStr(plan.title) = obj.title
                  /\ JStr(plan.thought) = obj.thought
                  /\ obj.steps # Missing
                  /\ Len(plan.steps) = Len(obj.steps.items)
                  /\ \A i \in 1..Len(plan.steps) :
                        /\ JStr(plan.steps[i].title) = obj.steps.items[i].title
                        /\ JStr(plan.steps[i].description) = obj.steps.items[i].description
                        /\ JStr(plan.steps[i].step_type) = obj.steps.items[i].step_type
                        /\ plan.steps[i].step_type \in StepType

\* An object with every key of the Plan and two complete steps, the second
\* with the step_type "Research", was rejected.
C22_Witness ==
    /\ Validated
    /\ result = Raised("ValidationError")
    /\ call.obj.has_enough_context = JBool(FALSE)
    /\ call.obj.title # Missing
    /\ call.obj.thought # Missing
    /\ call.obj.steps # Missing
    /\ Len(call.obj.steps.items) = 2
    /\ ~StepLacks(call.obj.steps.items[1])
    /\ call.obj.steps.items[2].title # Missing
    /\ call.obj.steps.items[2].description # Missing
    /\ call.obj.steps.items[2].step_type = JStr("Research")

-----------------------------------------------------------------------------
(* QueryProcessor.process_query. A string is the sequence of its characters *)
(* and a model response is the sequence of its lines, what split("\n")      *)
(* makes of it; the response without content is the one without lines.     *)

MaxLines ==
    3

MaxVariations ==
    3

MaxItems ==
    2

QueryText ==
    <<"a", "b", "c">>

Variation1 ==
    <<"x", "y", "z">>

Variation2 ==
    <<"u", "v", "w">>

\* The queries: empty, blank, plain, and with a leading blank.
Queries ==
    {<<>>, <<" ">>, QueryText, <<" ">> \o QueryText}

QueryStrategy ==
    {"direct", "paraphrase", "expand"}

\* The lines of a response: list items with the original query, with two
\* variations, with a variation that is too short and with one wrapped in
\* blanks, and a line that is no list item.
ReplyLines ==
    {<<"-", " ">> \o QueryText,
     <<"-", " ">> \o Variation1,
     <<"-", " ">> \o Variation2,
     <<"-", " ", "a">>,
     <<" ", "-", " ">> \o Variation2 \o <<" ">>,
     Variation1}

RECURSIVE LStrip(_)
LStrip(text) ==
    IF text # <<>> /\ Head(text) = " " THEN LStrip(Tail(text)) ELSE text

RECURSIVE RStrip(_)
RStrip(text) ==
    IF text # <<>> /\ text[Len(text)] = " "
    THEN RStrip(SubSeq(text, 1, Len(text) - 1))
    ELSE text

\* str.strip()
Strip(text) ==
    RStrip(LStrip(text))

\* str.startswith(prefix)
StartsWith(text, prefix) ==
    /\ Len(text) >= Len(prefix)
    /\ SubSeq(text, 1, Len(prefix)) = prefix

In(x, seq) ==
    \E i \in 1..Len(seq) : seq[i] = x

RECURSIVE _parse_response(_)
_parse_response(lines) ==
    IF lines = <<>>
    THEN <<>>
    ELSE LET line == Strip(Head(lines))
             query == Strip(SubSeq(line, 3, Len(line)))
         IN  (IF StartsWith(line, <<"-", " ">>) /\ query # <<>>
              THEN <<query>>
              ELSE <<>>)
             \o _parse_response(Tail(lines))

RECURSIVE StripLongEnough(_)
StripLongEnough(queries) ==
    IF queries = <<>>
    THEN <<>>
    ELSE LET q == Strip(Head(queries))
         IN  (IF q # <<>> /\ Len(q) >= 3 THEN <<q>> ELSE <<>>)
             \o StripLongEnough(Tail(queries))

_validate_queries(queries, original_query) ==
    LET valid_queries == StripLongEnough(queries)
    IN  IF valid_queries # <<>> THEN valid_queries ELSE <<original_query>>

\* queries[: max_variations] when the list is longer than that.
Truncate(queries, query, max_variations) ==
    IF Len(queries) > max_variations
    THEN SubSeq(queries, 1, max_variations)
    ELSE queries

process_query(query, tool_description, llm) ==
    IF Strip(query) = <<>>
    THEN Raised("QueryProcessingError")
    ELSE IF tool_description.query_strategy = "direct"
    THEN Returned(<<query>>)
    ELSE IF llm.raises \/ llm.lines = <<>>
    THEN Returned(<<query>>)
    ELSE LET parsed == _parse_response(llm.lines)
             validated == _validate_queries(parsed, query)
             queries == IF In(query, validated)
                        THEN validated
                        ELSE <<query>> \o validated
         IN  Returned(Truncate(queries, query, tool_description.max_variations))

ToolDescription(query_strategy, max_variations) ==
    [query_strategy |-> query_strategy, max_variations |-> max_variations]

\* The calls of process_query, with what self.llm.ainvoke does in each: raise,
\* or return a response of up to MaxLines lines.
ProcessQueryCalls ==
    [fn : {"process_query"},
     query : Queries,
     tool_description : {ToolDescription(st, mv) :
                            st \in QueryStrategy, mv \in 1..MaxVariations},
     llm : [raises : {TRUE}, lines : {<<>>}]
           \cup [raises : {FALSE},
                 lines : UNION {[1..n -> ReplyLines] : n \in 0..MaxLines}]]

ProcessQueryCall ==
    /\ call.fn = "process_query"
    /\ result = NoResult
    /\ result' = process_query(call.query, call.tool_description, call.llm)
    /\ UNCHANGED <<workflow_vars, run_vars, call, func_calls>>

-----------------------------------------------------------------------------
(* The wrapper that process_queries puts around a tool *)

JInt(n) ==
    [type |-> "int", int |-> n]

\* The items of a tool's list result: a number and a string with one string
\* form, and another string.
Items ==
    {JInt(1), JStr("1"), JStr("a")}

\* str(item)
StrOf(item) ==
    IF item.type = "int"
    THEN <<"0", "1", "2", "3", "4", "5", "6", "7", "8", "9">>[item.int + 1]
    ELSE item.str

\* What one call of the wrapped tool does: return its value, return a dict
\* with an "error" key, or raise.
FuncOutcomes(kind) ==
    {[does |-> "error", items |-> <<>>], [does |-> "raise", items |-> <<>>]}
    \cup (IF kind = "list"
          THEN {[does |-> "return", items |-> items] :
                   items \in UNION {[1..n -> Items] : n \in 0..MaxItems}}
          ELSE {[does |-> "return", items |-> <<>>]})

\* The wrapped tools: by the type of what they return (a list, a dict with an
\* answer, a string) and by what they do for the caller's query and for any
\* other query.
Funcs ==
    UNION {[kind : {kind},
            for_query : FuncOutcomes(kind),
            for_variation : FuncOutcomes(kind)] : kind \in {"list", "dict", "str"}}

\* await func(<query>): what the tool returns or raises for that query.
CallFunc(func, processed_query, query) ==
    LET outcome == IF processed_query = query THEN func.for_query ELSE func.for_variation
    IN  IF outcome.does = "raise" THEN Raised("ToolError")
        ELSE IF outcome.does = "error" THEN Returned([type |-> "dict", error |-> "Something went wrong"])
        ELSE IF func.kind = "list" THEN Returned(JList(outcome.items))
        ELSE IF func.kind = "dict" THEN Returned([type |-> "dict", answer |-> JStr(processed_query)])
        ELSE Returned(JStr(processed_query))

\* How the wrapper passes the query on: as it received it.
FuncCall(form, processed_query) ==
    [form |-> form, query |-> processed_query]

\* A variant of CombineLists that lets every item through.
RECURSIVE CombineListsKeepingAll(_, _)
CombineListsKeepingAll(items, seen_results) ==
    IF items = <<>>
    THEN <<>>
    ELSE <<Head(items)>> \o CombineListsKeepingAll(Tail(items), seen_results)

\* The loop over the items of the results: an item is kept when its string
\* form has not been seen.
RECURSIVE CombineLists(_, _)
CombineLists(items, seen_results) ==
    IF items = <<>>
    THEN <<>>
    ELSE LET item_str == StrOf(Head(items))
         IN  IF item_str \in seen_results
             THEN CombineLists(Tail(items), seen_results)
             ELSE <<Head(items)>>
                  \o CombineLists(Tail(items), seen_results \cup {item_str})

RECURSIVE Concat(_)
Concat(lists) ==
    IF lists = <<>> THEN <<>> ELSE Head(lists).items \o Concat(Tail(lists))

\* The merge of the "answer" values of dict results: the first answer, made
\* into a list as soon as a different one comes, to which the answers not yet
\* in it are appended.
RECURSIVE MergeAnswers(_, _)
MergeAnswers(combined, values) ==
    IF values = <<>>
    THEN combined
    ELSE LET value == Head(values)
         IN  IF combined.type = "list"
             THEN MergeAnswers(IF In(value, combined.items)
                               THEN combined
                               ELSE JList(Append(combined.items, value)),
                               Tail(values))
             ELSE MergeAnswers(IF value.str # <<>> /\ value # combined
                               THEN JList(<<combined, value>>)
                               ELSE combined,
                               Tail(values))

\* Lines 262-308: the results combined by their type.
Combine(results) ==
    IF results[1].type = "list"
    THEN JList(CombineLists(Concat(results), {}))
    ELSE IF results[1].type = "dict"
    THEN [type |-> "dict",
          answer |-> MergeAnswers(results[1].answer,
                                  [i \in 1..(Len(results) - 1) |-> results[i + 1].answer])]
    ELSE results[1]

\* A variant of ProcessedQueries that gives up after a QueryProcessingError.
ProcessedQueriesGivingUp(processed, query) ==
    IF processed.type = "raised" THEN <<>> ELSE processed.value

\* Lines 223-230: the list process_query returned, or the original query
\* alone after a QueryProcessingError.
ProcessedQueries(processed, query) ==
    IF processed.type = "raised" THEN <<query>> ELSE processed.value

\* The wrapper: c.form tells whether the caller gave the query positionally or
\* as the keyword argument `query`. A keyword query is popped from kwargs
\* before the test for an empty query, so that the call handed on for an empty
\* keyword query has no argument at all; the tool's query parameter being
\* required, that call raises TypeError. A tool result is an error when it is
\* a dict with an "error" key, and a call that raises counts as the error
\* dict made of its exception.
wrapper(c) ==
    IF c.query = <<>>
    THEN IF c.form = "positional"
         THEN [result |-> CallFunc(c.func, c.query, c.query),
               func_calls |-> <<FuncCall(c.form, c.query)>>]
         ELSE [result |-> Raised("TypeError"), func_calls |-> <<[form |-> "none"]>>]
    ELSE IF c.processor_raises
    THEN [result |-> CallFunc(c.func, c.query, c.query),
          func_calls |-> <<FuncCall(c.form, c.query)>>]
    ELSE LET processed_queries ==
                 ProcessedQueries(process_query(c.query, c.tool_description, c.llm),
                                  c.query)
             n == Len(processed_queries)
             outcomes == [i \in 1..n |->
                            LET r == CallFunc(c.func, processed_queries[i], c.query)
                            IN  IF r.type = "raised"
                                THEN [error |-> TRUE,
                                      value |-> [type |-> "dict",
                                                 error |-> "ToolError",
                                                 query |-> processed_queries[i]]]
                                ELSE [error |-> (r.value.type = "dict"
                                                 /\ "error" \in DOMAIN r.value),
                                      value |-> r.value]]
             kept == SelectSeq(outcomes, LAMBDA o : ~o.error)
             failed == SelectSeq(outcomes, LAMBDA o : o.error)
             results == [i \in 1..Len(kept) |-> kept[i].value]
             errors == [i \in 1..Len(failed) |-> failed[i].value]
         IN  [result |->
                  IF results = <<>> /\ errors # <<>>
                  THEN Returned(errors[1])
                  ELSE IF results = <<>>
                  THEN Returned([type |-> "dict",
                                 error |-> "All query variations failed",
                                 details |-> errors])
                  ELSE Returned(Combine(results)),
              func_calls |-> [i \in 1..n |-> FuncCall(c.form, processed_queries[i])]]

\* The calls of a wrapped tool. processor_raises: QueryProcessor(llm_type)
\* raises (get_llm_by_type finds no such model). The processor's model raises
\* or lists one variation, two, one and the original query, or one twice.
\* Nothing of the processing is chosen where it is not reached.
WrapperCalls ==
    {c \in [fn : {"wrapper"},
            form : {"positional", "keyword"},
            query : {<<>>, <<" ">>, QueryText},
            tool_description : {ToolDescription(st, mv) :
                                   st \in {"direct", "paraphrase"},
                                   mv \in 1..MaxVariations},
            processor_raises : BOOLEAN,
            llm : [raises : {TRUE}, lines : {<<>>}]
                  \cup [raises : {FALSE},
                        lines : {<<<<"-", " ">> \o Variation1>>,
                                 <<<<"-", " ">> \o Variation1, <<"-", " ">> \o Variation2>>,
                                 <<<<"-", " ">> \o Variation1, <<"-", " ">> \o QueryText>>,
                                 <<<<"-", " ">> \o Variation1, <<"-", " ">> \o Variation1>>}],
            func : Funcs] :
        /\ c.tool_description.query_strategy = "direct" => c.llm.raises
        /\ c.processor_raises =>
              /\ c.tool_description = ToolDescription("direct", 1)
              /\ c.llm.raises}

WrapperCall ==
    /\ call.fn = "wrapper"
    /\ result = NoResult
    /\ result' = wrapper(call).result
    /\ func_calls' = wrapper(call).func_calls
    /\ UNCHANGED <<workflow_vars, run_vars, call>>

QueryInit ==
    /\ NoRun
    /\ _tool_event_callback = None
    /\ runs = <<>>
    /\ call \in ProcessQueryCalls \cup WrapperCalls
    /\ func_calls = <<>>
    /\ result = NoResult

QueryNext ==
    \/ ProcessQueryCall
    \/ WrapperCall

QuerySpec ==
    QueryInit /\ [][QueryNext]_vars

-----------------------------------------------------------------------------
(* Query processing: what the caller gets *)

ProcessQueryDone ==
    call.fn = "process_query" /\ result # NoResult

WrapperDone ==
    call.fn = "wrapper" /\ result # NoResult

\* C23 (as claimed): for a query that is not blank, a strategy other than
\* DIRECT and max_variations >= 1, process_query returns at most
\* max_variations queries and the original query is one of them.
C23_KeepsOriginalAsClaimed ==
    (/\ ProcessQueryDone
     /\ Strip(call.query) # <<>>
     /\ call.tool_description.query_strategy # "direct"
     /\ call.tool_description.max_variations >= 1) =>
        /\ result.type = "returned"
        /\ Len(result.value) <= call.tool_description.max_variations
        /\ In(call.query, result.value)

\* What the wrapped tool does when it is given the caller's query.
OwnResult ==
    CallFunc(call.func, call.query, call.query)

\* The one call that hands the caller's query on as the caller gave it.
OwnCall ==
    [form |-> call.form, query |-> call.query]

\* C24 (as claimed): called with an empty query, positional or keyword, the
\* wrapper calls the wrapped function exactly once, with the caller's
\* arguments, the query among them, and returns its result.
C24_EmptyQueryAsClaimed ==
    (WrapperDone /\ call.query = <<>>) =>
        /\ func_calls = <<OwnCall>>
        /\ result = OwnResult

\* Query processing fails: QueryProcessor(llm_type) raises, or process_query
\* raises QueryProcessingError.
ProcessingFails ==
    /\ call.query # <<>>
    /\ \/ call.processor_raises
       \/ process_query(call.query, call.tool_description, call.llm).type = "raised"

\* C25 (as claimed): when query processing fails and the tool returns for the
\* original query, the tool is executed once, with the original query, and the
\* caller receives the tool's result.
C25_FallbackResultAsClaimed ==
    (WrapperDone /\ ProcessingFails /\ OwnResult.type = "returned") =>
        /\ func_calls = <<OwnCall>>
        /\ result = OwnResult

NoRepeatedStr(items) ==
    \A i, j \in 1..Len(items) : StrOf(items[i]) = StrOf(items[j]) => i = j

\* The items whose string form no earlier item of the list has.
FirstOccurrences(items) ==
    SelectSeq([i \in 1..Len(items) |->
                  [item |-> items[i],
                   first |-> \A j \in 1..(i - 1) : StrOf(items[j]) # StrOf(items[i])]],
              LAMBDA x : x.first)

ItemsOf(marked) ==
    [i \in 1..Len(marked) |-> marked[i].item]

\* C25: when query processing fails and the tool returns for the original
\* query, the tool is executed once, with the original query, and the caller
\* receives a result, never an exception: the tool's result as it is, but for
\* a list returned after a QueryProcessingError, which comes back without the
\* items whose string form repeats an earlier item's.
C25_FallbackResult ==
    (WrapperDone /\ ProcessingFails /\ OwnResult.type = "returned") =>
        /\ func_calls = <<OwnCall>>
        /\ result.type = "returned"
        /\ IF OwnResult.value.type = "list" /\ ~call.processor_raises
           THEN result.value = JList(ItemsOf(FirstOccurrences(OwnResult.value.items)))
           ELSE result = OwnResult

\* A blank query made process_query raise, the tool returned a list with a
\* repeated string form for it, and the caller got the list without the
\* repetition.
C25_Witness ==
    /\ WrapperDone
    /\ ProcessingFails
    /\ ~call.processor_raises
    /\ func_calls = <<OwnCall>>
    /\ OwnResult = Returned(JList(<<JInt(1), JStr("1")>>))
    /\ result = Returned(JList(<<JInt(1)>>))

\* The lists the tool returned in the calls made, one after the other.
ListsReturned ==
    LET returned == SelectSeq([i \in 1..Len(func_calls) |->
                                  CallFunc(call.func, func_calls[i].query, call.query)],
                              LAMBDA r : r.type = "returned" /\ r.value.type = "list")
    IN  [i \in 1..Len(returned) |-> returned[i].value]

\* C26 (as claimed): a list returned by the wrapper of a tool that returns
\* lists has no two items with the same string form, and keeps the items in
\* the order of their first occurrence in the tool's results.
C26_DeduplicatedAsClaimed ==
    (WrapperDone /\ call.func.kind = "list"
     /\ result.type = "returned" /\ result.value.type = "list") =>
        /\ NoRepeatedStr(result.value.items)
        /\ result.value.items = ItemsOf(FirstOccurrences(Concat(ListsReturned)))

\* The wrapper hands the call on without collecting results: the query is
\* empty, or an exception other than QueryProcessingError sent it to the
\* fallback call.
PassedThrough ==
    call.query = <<>> \/ call.processor_raises

\* C26: when the wrapper collects the results of the processed queries, the
\* list it returns for a tool that returns lists has no two items with the
\* same string form and keeps the items in the order of their first
\* occurrence, wherever the repetitions come from; a call that is handed on
\* (empty query, fallback after another exception) returns the tool's list as
\* it is.
C26_Deduplicated ==
    (WrapperDone /\ call.func.kind = "list"
     /\ result.type = "returned" /\ result.value.type = "list") =>
        IF PassedThrough
        THEN result = OwnResult
        ELSE /\ NoRepeatedStr(result.value.items)
             /\ result.value.items = ItemsOf(FirstOccurrences(Concat(ListsReturned)))

\* The tool was called with the original query and with a variation; both
\* results repeat a string form, within the result and across the two, and
\* the caller got each string form once, in the order of first occurrence.
C26_Witness ==
    /\ WrapperDone
    /\ ~PassedThrough
    /\ Len(func_calls) = 2
    /\ call.func.for_query = [does |-> "return", items |-> <<JStr("a"), JStr("a")>>]
    /\ call.func.for_variation = [does |-> "return", items |-> <<JInt(1), JStr("a")>>]
    /\ result = Returned(JList(<<JStr("a"), JInt(1)>>))

-----------------------------------------------------------------------------
(* Entry, step order and the observations *)

\* C31: a run starts at coordinator_node, and a coordinator whose model
\* call returns has exactly two outcomes: a transition to planner that leaves
\* the State as it is (tool call present), or a transition to end whose only
\* change is one message named coordinator, holding the model's reply,
\* appended after the messages there were.
C31_Coordinator ==
    /\ node = "coordinator" /\ steps_run = 0
    /\ [][(AtNode("coordinator") /\ raised' \notin LLMErrors) =>
             /\ raised' = ""
             /\ \/ node' = "planner" /\ state' = state
                \/ /\ node' = "__end__"
                   /\ state' = [state EXCEPT
                                   !.messages = Append(state.messages,
                                                       AIMessage("reply", "coordinator"))]]_vars

\* The coordinator answered the user itself and the run ended there.
C31_Witness ==
    /\ pc = "closed"
    /\ node = "__end__"
    /\ steps_run = 1
    /\ state.messages = <<UserMessage, AIMessage("reply", "coordinator")>>

\* The positions of the steps whose execution_res is set.
ExecutedSteps(plan) ==
    (1..Len(plan.steps)) \ PendingSteps(plan)

\* C32 (as claimed): whenever current_plan is a Plan, its steps with
\* execution_res set are the first ones of Plan.steps, and every execution
\* takes the step right after them.
C32_PlanOrderAsClaimed ==
    /\ [](HasPlan =>
             ExecutedSteps(state.current_plan)
                = 1..Cardinality(ExecutedSteps(state.current_plan)))
    /\ [][executed' # executed =>
             executed'[Len(executed')].index
                = Cardinality(ExecutedSteps(state.current_plan)) + 1]_vars

\* C33 (as claimed): every Plan that planner_node, human_feedback_node or
\* plan_modifier_node installs as current_plan has all its steps pending, and
\* research_team_node goes back to the planner with a plan of executed steps
\* only when each of them has been executed.
C33_InstalledPlansPendingAsClaimed ==
    /\ [][(/\ pc = "graph"
           /\ node \in {"planner", "feedback_node", "plan_modifier"}
           /\ state'.current_plan # state.current_plan
           /\ state'.current_plan.kind = "Plan") =>
             ExecutedSteps(state'.current_plan) = {}]_vars
    /\ [][(/\ AtNode("research_team")
           /\ HasPlan
           /\ state.current_plan.steps # <<>>
           /\ node' = "planner") =>
             \A i \in 1..Len(state.current_plan.steps) :
                \E k \in 1..Len(executed) : executed[k].index = i]_vars

\* C34: the observations are, in order, the results of the step executions
\* completed so far in the run, one per execution; they only grow, and what an
\* execution appends is the result it writes to its step.
C34_Observations ==
    /\ [](/\ Len(state.observations) = Len(executed)
          /\ \A i \in 1..Len(executed) : state.observations[i] = executed[i].content)
    /\ [][/\ IsPrefix(state.observations, state'.observations)
          /\ executed' # executed =>
                /\ Len(state'.observations) = Len(state.observations) + 1
                /\ state'.current_plan.steps[executed'[Len(executed')].index].execution_res
                      = state'.observations[Len(state'.observations)]]_vars

\* Two steps have been executed, the first by a reply with content and the
\* second by an empty one.
C34_Witness ==
    /\ Len(executed) = 2
    /\ executed[1].index = 1
    /\ executed[2].index = 2
    /\ state.observations = <<"r1", "">>

\* C36 (as claimed): a node leaves the State it was given, and the snapshot
\* the driver holds of it, as they were, and the State after a step execution
\* is the State before it with the update of the returned Command applied.
C36_NoInPlaceMutationAsClaimed ==
    [][(pc = "graph" /\ executed' # executed) =>
          /\ last_state' = last_state
          /\ \E agent_name \in {"researcher", "coder"}, response_content \in AgentReplies :
                state' = ApplyUpdate(state,
                                     execute_agent_step(state, agent_name,
                                                        response_content).cmd.update)]_vars

-----------------------------------------------------------------------------
(* Telemetry at the end of a run *)

\* C38 (as claimed): when the stream closes, every tool event put on the queue
\* during the run has been yielded.
C38_NoTelemetryLostAsClaimed ==
    pc = "closed" => tool_events_queue = <<>>

-----------------------------------------------------------------------------
(* Termination *)

\* C35: every run closes its stream after at most RecursionLimit node
\* executions, whatever the human answers and however often a step stays
\* pending or research_team returns to the planner; the step of a run that
\* has used up the step budget is the fallback's: it closes the stream with
\* the final_report as the last event.
C35_Terminates ==
    /\ <>(pc = "closed")
    /\ [](steps_run <= RecursionLimit)
    /\ [][(pc = "graph" /\ node # "__end__" /\ steps_run >= RecursionLimit) =>
             /\ pc' = "closed"
             /\ raised' = "GraphRecursionError"
             /\ events'[Len(events')].type = "final_report"]_vars

\* The step budget ran out on a step that two executions left pending, and
\* the stream closed behind the fallback's report.
C35_Witness ==
    /\ pc = "closed"
    /\ raised = "GraphRecursionError"
    /\ steps_run = RecursionLimit
    /\ Len(executed) >= 2
    /\ executed[1].index = 1
    /\ executed[2].index = 1
    /\ events[Len(events)].type = "final_report"

-----------------------------------------------------------------------------
(* Two runs in one process *)

\* The tool calls a run makes.
MaxRunCalls ==
    2

\* Two runs of run_agent_workflow_async, not yet started. An event carries,
\* next to its type and its call's number, the run whose tool call produced it.
ConcurrentInit ==
    /\ NoRun
    /\ call = [fn |-> "none"]
    /\ func_calls = <<>>
    /\ result = NoResult
    /\ _tool_event_callback = None
    /\ runs = [r \in {"A", "B"} |->
                 [pc |-> "idle", tool_events_queue |-> <<>>, events |-> <<>>, calls |-> 0]]

\* run_agent_workflow_async up to its first await: the run makes its queue
\* and installs its handler as the module's callback.
StartRun(r) ==
    /\ runs[r].pc = "idle"
    /\ runs' = [runs EXCEPT ![r].pc = "running"]
    /\ _tool_event_callback' = r
    /\ UNCHANGED <<workflow_vars, call_vars>>

\* log_io_with_events up to the await of the wrapped tool: the tool_start
\* event goes to the handler the module holds at that moment.
ToolStart(r) ==
    /\ runs[r].pc = "running"
    /\ runs[r].calls < MaxRunCalls
    /\ LET event == [type |-> "tool_start", tool_name |-> "tool",
                     call |-> runs[r].calls + 1, run |-> r]
           handler == _tool_event_callback
       IN  runs' = [runs EXCEPT
                       ![r].pc = "in_tool",
                       ![r].calls = @ + 1,
                       ![handler].tool_events_queue = Append(@, event)]
    /\ UNCHANGED <<workflow_vars, call_vars, _tool_event_callback>>

\* log_io_with_events after the wrapped tool returned.
ToolComplete(r) ==
    /\ runs[r].pc = "in_tool"
    /\ LET event == [type |-> "tool_complete", tool_name |-> "tool",
                     call |-> runs[r].calls, run |-> r]
           handler == _tool_event_callback
       IN  runs' = [runs EXCEPT
                       ![r].pc = "running",
                       ![handler].tool_events_queue = Append(@, event)]
    /\ UNCHANGED <<workflow_vars, call_vars, _tool_event_callback>>

\* The top of the driver's loop body: the run yields what its queue holds.
DrainQueue(r) ==
    /\ runs[r].pc = "running"
    /\ runs[r].tool_events_queue # <<>>
    /\ runs' = [runs EXCEPT
                    ![r].events = @ \o runs[r].tool_events_queue,
                    ![r].tool_events_queue = <<>>]
    /\ UNCHANGED <<workflow_vars, call_vars, _tool_event_callback>>

\* The run's stream is exhausted; the module keeps the handler it holds.
RunEnds(r) ==
    /\ runs[r].pc = "running"
    /\ runs' = [runs EXCEPT ![r].pc = "closed"]
    /\ UNCHANGED <<workflow_vars, call_vars, _tool_event_callback>>

ConcurrentNext ==
    \/ \E r \in DOMAIN runs : StartRun(r)
    \/ \E r \in DOMAIN runs : ToolStart(r)
    \/ \E r \in DOMAIN runs : ToolComplete(r)
    \/ \E r \in DOMAIN runs : DrainQueue(r)
    \/ \E r \in DOMAIN runs : RunEnds(r)

ConcurrentSpec ==
    ConcurrentInit /\ [][ConcurrentNext]_vars

\* C37 (as claimed): with two runs in one process, the tool events a run has
\* yielded or holds in its queue all come from tool calls of that run.
C37_RunIsolationAsClaimed ==
    \A r \in DOMAIN runs :
        LET received == runs[r].events \o runs[r].tool_events_queue
        IN  \A i \in 1..Len(received) : received[i].run = r

====
